---- MODULE Spec2Model ----
(***************************************************************************)
(* A model of server.js: the e-learning GraphQL backend.                   *)
(*                                                                         *)
(* State: the two MongoDB collections (users, courses), the wall clock,    *)
(* the tokens handed out by login, and one record per request slot that    *)
(* holds the request's context (req.isAuth, req.userId), its position in   *)
(* the async resolver and the documents it has loaded.  A resolver is cut  *)
(* at its awaits: one action is one storage round trip together with the   *)
(* synchronous code that follows it up to the next await.                  *)
(*                                                                         *)
(* doc.save() is a call into the ODM.  What reaches the collection is      *)
(* either the whole loaded document (last writer wins) or only the paths   *)
(* changed since the load (the pushes).  server.js fixes neither, so the   *)
(* variable persist carries the choice and both are explored.              *)
(***************************************************************************)
EXTENDS Integers, Sequences, FiniteSets, TLC

\* ---------------------------------------------------------------- bounds
MaxReq == 2
MaxTime == 1
MaxStudents == 2

\* ------------------------------------------------------ program constants
\* jwt.sign(..., { expiresIn: '1d' }); the clock counts days
ExpiresIn == 1

Req == 1..MaxReq
Emails == {"ann@x.com", "bob@x.com"}
Passwords == {"pw1", "pw2"}
CourseIds == {"c1", "c2"}
\* an id that names no course document
MissingCourse == "c404"
CourseArgs == CourseIds \cup {MissingCourse}
Lessons == {"lesson1", "lesson2"}
Categories == {"math", "art"}

\* a query that finds nothing yields null; a document is wrapped
None == <<>>
Some(x) == <<x>>

VARIABLES users, courses, now, issued, req, persist

vars == <<users, courses, now, issued, req, persist>>

\* --------------------------------------------------------------- helpers
Includes(s, x) == \E i \in 1..Len(s) : s[i] = x

\* Array.prototype.find: the first element that satisfies the test
RECURSIVE FirstIndex(_, _, _)
FirstIndex(s, x, i) ==
  IF i > Len(s) THEN 0
  ELSE IF s[i] = x THEN i
  ELSE FirstIndex(s, x, i + 1)

Count(s, x) == Cardinality({i \in 1..Len(s) : s[i] = x})

ProgressCourses(u) == [i \in 1..Len(u.progress) |-> u.progress[i].course]

\* new User({ name, email, password }): arrays start empty
NewUser(id, email, password) ==
  [id |-> id, email |-> email, password |-> password,
   enrolledCourses |-> <<>>, progress |-> <<>>]

\* User.findById
FindUserById(id) == IF id \in 1..Len(users) THEN Some(users[id]) ELSE None

\* User.findOne({ email }): the first match in collection order
FindUserByEmail(email) ==
  LET hits == {i \in 1..Len(users) : users[i].email = email}
  IN IF hits = {} THEN None
     ELSE Some(users[CHOOSE i \in hits : \A j \in hits : i <= j])

\* Course.findById
FindCourseById(cid) == IF cid \in DOMAIN courses THEN Some(courses[cid]) ELSE None

\* .populate(path): each stored id replaced by the document it names
Populate(ids) == [i \in 1..Len(ids) |-> courses[ids[i]]]

\* ------------------------------------------------------------------ tokens
\* mutant: the token is signed with a key other than the one verify uses
SignOtherSecret(uid, t) ==
  [fmt |-> "jwt", sig |-> "forged", userId |-> uid, exp |-> t + ExpiresIn]

\* jwt.sign({ userId }, secret, { expiresIn: '1d' })
Sign(uid, t) == [fmt |-> "jwt", sig |-> "ok", userId |-> uid, exp |-> t + ExpiresIn]

\* jwt.verify: throws unless well-formed, signed by the secret and unexpired
Verifies(tok, t) == tok.fmt = "jwt" /\ tok.sig = "ok" /\ t < tok.exp

EmptyToken == [fmt |-> "empty", sig |-> "none", userId |-> 0, exp |-> 0]
GarbageToken == [fmt |-> "garbage", sig |-> "none", userId |-> 0, exp |-> 0]
ForgedToken == [fmt |-> "jwt", sig |-> "forged", userId |-> 1, exp |-> MaxTime + 1]

\* The authorization header after split(' '): the scheme and what follows it.
NoHeader == [scheme |-> "", rest |-> <<>>]
BearerOnly == [scheme |-> "Bearer", rest |-> <<>>]
Bearer(tok) == [scheme |-> "Bearer", rest |-> <<tok>>]
Headers ==
  {NoHeader, BearerOnly, Bearer(EmptyToken), Bearer(GarbageToken), Bearer(ForgedToken)}
    \cup {Bearer(t) : t \in issued}

\* mutant: jwt.verify outside a try/catch, its exception escapes the gate
isAuthNoCatch(h, t) ==
  IF h.rest = <<>> \/ h.rest[1].fmt = "empty"
  THEN [isAuth |-> "undefined", userId |-> 0, nextCalls |-> 1, thrown |-> FALSE]
  ELSE IF Verifies(h.rest[1], t)
       THEN [isAuth |-> "true", userId |-> h.rest[1].userId, nextCalls |-> 1,
             thrown |-> FALSE]
       ELSE [isAuth |-> "undefined", userId |-> 0, nextCalls |-> 0, thrown |-> TRUE]

\* isAuth middleware: the context it leaves on req and how often it calls next
isAuth(h, t) ==
  IF h.rest = <<>> \/ h.rest[1].fmt = "empty"
  THEN [isAuth |-> "undefined", userId |-> 0, nextCalls |-> 1, thrown |-> FALSE]
  ELSE IF Verifies(h.rest[1], t)
       THEN [isAuth |-> "true", userId |-> h.rest[1].userId, nextCalls |-> 1,
             thrown |-> FALSE]
       ELSE [isAuth |-> "false", userId |-> 0, nextCalls |-> 1, thrown |-> FALSE]

\* mutant: includes by identity, a stored ObjectId never equals the id string
EnrolledSameValueZero(user, courseId) == FALSE

\* user.enrolledCourses.includes(courseId)
Enrolled(user, courseId) == Includes(user.enrolledCourses, courseId)

\* mutant: the membership test looks for the course id, not the lesson
CompletedByCourse(progress, lesson) == Includes(progress.completedLessons, progress.course)

\* progress.completedLessons.includes(lesson)
Completed(progress, lesson) == Includes(progress.completedLessons, lesson)

\* mutant: the guard tests req.isAuth === false, so an unset flag passes
NotAuthStrict(r) == req[r].ctx.isAuth = "false"

\* if (!req.isAuth) throw new Error("Unauthorized")
NotAuth(r) == req[r].ctx.isAuth # "true"

\* ------------------------------------------------------------ request slots
NoCtx == [isAuth |-> "undefined", userId |-> 0, nextCalls |-> 0, thrown |-> FALSE]

IdleSlot ==
  [pc |-> "idle", header |-> NoHeader, ctx |-> NoCtx, op |-> "none",
   courseId |-> "", lesson |-> "", email |-> "", password |-> "", category |-> "",
   user |-> None, course |-> None, userOps |-> <<>>, courseOps |-> <<>>,
   storeOps |-> 0, outcome |-> "", ret |-> None]

\* the resolver settles: its locals go out of scope, the response carries
\* either the error message or the returned value
Finish(s, outcome, ret) ==
  [s EXCEPT !.pc = "done", !.outcome = outcome, !.ret = ret,
            !.user = None, !.course = None, !.userOps = <<>>, !.courseOps = <<>>]

\* the request as the resolver sees it: nothing reads the header after the gate
Handled(s) == [s EXCEPT !.header = NoHeader]

Throw(s, message) == Finish(s, message, None)
Return(s, value) == Finish(s, "ok", value)

\* ------------------------------------------------------------- persistence
\* one recorded array push: the path, the index of the progress entry (for
\* completedLessons) and the pushed value
ApplyUserOp(doc, o) ==
  IF o.path = "enrolledCourses"
  THEN [doc EXCEPT !.enrolledCourses = Append(@, o.val)]
  ELSE IF o.path = "progress"
  THEN [doc EXCEPT !.progress = Append(@, [course |-> o.val, completedLessons |-> <<>>])]
  ELSE [doc EXCEPT !.progress[o.idx].completedLessons = Append(@, o.val)]

RECURSIVE ApplyUserOps(_, _)
ApplyUserOps(doc, ops) ==
  IF ops = <<>> THEN doc ELSE ApplyUserOps(ApplyUserOp(doc, Head(ops)), Tail(ops))

\* user.save() of a loaded document
SaveUser(local, ops) ==
  IF persist = "overwrite"
  THEN [users EXCEPT ![local.id] = local]
  ELSE [users EXCEPT ![local.id] = ApplyUserOps(@, ops)]

RECURSIVE ApplyCourseOps(_, _)
ApplyCourseOps(doc, ops) ==
  IF ops = <<>> THEN doc
  ELSE ApplyCourseOps([doc EXCEPT !.enrolledStudents = Append(@, Head(ops))], Tail(ops))

\* course.save() of a loaded document
SaveCourse(local, ops) ==
  IF persist = "overwrite"
  THEN [courses EXCEPT ![local.id] = local]
  ELSE [courses EXCEPT ![local.id] = ApplyCourseOps(@, ops)]

\* mutant: the schema declares no unique index on email
NoUniqueIndex(email) == FALSE

\* the unique index on email declared by userSchema
EmailTaken(email) == \E i \in 1..Len(users) : users[i].email = email

\* ------------------------------------------------------------------- Init
Catalog ==
  [c \in CourseIds |->
     [id |-> c, category |-> IF c = "c1" THEN "math" ELSE "art", enrolledStudents |-> <<>>]]

Init ==
  /\ users = <<>>
  /\ courses = Catalog
  /\ now = 0
  /\ issued = {}
  /\ req = [r \in Req |-> IdleSlot]
  /\ persist \in {"overwrite", "delta"}

\* ---------------------------------------------------------------- actions
\* app.use(isAuth): runs on every request before the resolver
Receive(r, h) ==
  /\ req[r].pc = "idle"
  /\ LET g == isAuth(h, now)
         s == [IdleSlot EXCEPT !.header = h, !.ctx = g]
     IN req' = [req EXCEPT ![r] = IF g.thrown \/ g.nextCalls = 0
                                  THEN Throw(s, "GateError")
                                  ELSE [s EXCEPT !.pc = "gated"]]
  /\ UNCHANGED <<users, courses, now, issued, persist>>

\* courses({ category })
Courses(r, category) ==
  /\ req[r].pc = "gated"
  /\ LET s == [Handled(req[r]) EXCEPT !.op = "courses", !.category = category, !.storeOps = @ + 1]
         found == {c \in CourseIds : category = "" \/ courses[c].category = category}
     IN req' = [req EXCEPT ![r] = Return(s, Some([courses |-> found]))]
  /\ UNCHANGED <<users, courses, now, issued, persist>>

\* myCourses
MyCourses(r) ==
  /\ req[r].pc = "gated"
  /\ LET s == [Handled(req[r]) EXCEPT !.op = "myCourses"]
     IN IF NotAuth(r)
        THEN req' = [req EXCEPT ![r] = Throw(s, "Unauthorized")]
        ELSE LET user == FindUserById(req[r].ctx.userId)
                 t == [s EXCEPT !.storeOps = @ + 1]
             IN req' = [req EXCEPT ![r] =
                  IF user = None THEN Throw(t, "TypeError")
                  ELSE Return(t, Some([courses |-> Populate(user[1].enrolledCourses)]))]
  /\ UNCHANGED <<users, courses, now, issued, persist>>

\* myProgress({ courseId })
MyProgress(r, courseId) ==
  /\ req[r].pc = "gated"
  /\ LET s == [Handled(req[r]) EXCEPT !.op = "myProgress", !.courseId = courseId]
     IN IF NotAuth(r)
        THEN req' = [req EXCEPT ![r] = Throw(s, "Unauthorized")]
        ELSE LET user == FindUserById(req[r].ctx.userId)
                 t == [s EXCEPT !.storeOps = @ + 1]
             IN req' = [req EXCEPT ![r] =
                  IF user = None THEN Throw(t, "TypeError")
                  ELSE LET i == FirstIndex(ProgressCourses(user[1]), courseId, 1)
                       IN IF i = 0 THEN Return(t, None)
                          ELSE Return(t, Some([course |-> Populate(<<courseId>>)[1],
                                 completedLessons |-> user[1].progress[i].completedLessons]))]
  /\ UNCHANGED <<users, courses, now, issued, persist>>

\* register: const existingUser = await User.findOne({ email })
RegisterFind(r, email, password) ==
  /\ req[r].pc = "gated"
  /\ LET s == [Handled(req[r]) EXCEPT !.op = "register", !.email = email,
                             !.password = password, !.storeOps = @ + 1]
     IN req' = [req EXCEPT ![r] =
          IF FindUserByEmail(email) # None
          THEN Throw(s, "Email already registered")
          ELSE [s EXCEPT !.pc = "reg_save"]]
  /\ UNCHANGED <<users, courses, now, issued, persist>>

\* register: return await user.save() -- an insert, checked by the unique index
RegisterSave(r) ==
  /\ req[r].pc = "reg_save"
  /\ LET s == [req[r] EXCEPT !.storeOps = @ + 1]
         user == NewUser(Len(users) + 1, req[r].email, req[r].password)
     IN IF EmailTaken(req[r].email)
        THEN /\ req' = [req EXCEPT ![r] = Throw(s, "E11000 duplicate key")]
             /\ users' = users
        ELSE /\ req' = [req EXCEPT ![r] = Return(s, Some(user))]
             /\ users' = Append(users, user)
  /\ UNCHANGED <<courses, now, issued, persist>>

\* login
Login(r, email, password) ==
  /\ req[r].pc = "gated"
  /\ LET s == [Handled(req[r]) EXCEPT !.op = "login", !.email = email,
                             !.password = password, !.storeOps = @ + 1]
         user == FindUserByEmail(email)
     IN IF user = None \/ user[1].password # password
        THEN /\ req' = [req EXCEPT ![r] = Throw(s, "Invalid credentials")]
             /\ issued' = issued
        ELSE LET token == Sign(user[1].id, now)
             IN /\ req' = [req EXCEPT ![r] =
                     Return(s, Some([token |-> token, userId |-> user[1].id]))]
                /\ issued' = issued \cup {token}
  /\ UNCHANGED <<users, courses, now, persist>>

\* enroll: const user = await User.findById(req.userId)
EnrollFindUser(r, courseId) ==
  /\ req[r].pc = "gated"
  /\ LET s == [Handled(req[r]) EXCEPT !.op = "enroll", !.courseId = courseId]
     IN req' = [req EXCEPT ![r] =
          IF NotAuth(r)
          THEN Throw(s, "Unauthorized")
          ELSE [s EXCEPT !.pc = "en_findCourse", !.storeOps = @ + 1,
                         !.user = FindUserById(req[r].ctx.userId)]]
  /\ UNCHANGED <<users, courses, now, issued, persist>>

\* enroll: const course = await Course.findById(courseId), then the
\* check-before-push on the loaded documents
EnrollFindCourse(r) ==
  /\ req[r].pc = "en_findCourse"
  /\ LET s == [req[r] EXCEPT !.storeOps = @ + 1]
         c == s.courseId
         user == s.user
         course == FindCourseById(c)
     IN req' = [req EXCEPT ![r] =
          IF user = None THEN Throw(s, "TypeError")
          ELSE IF Enrolled(user[1], c) THEN Return(s, course)
          ELSE IF course = None THEN Throw(s, "TypeError")
          ELSE [s EXCEPT
                  !.pc = "en_saveUser",
                  !.user = Some([user[1] EXCEPT
                                   !.enrolledCourses = Append(@, c),
                                   !.progress = Append(@, [course |-> c,
                                                           completedLessons |-> <<>>])]),
                  !.course = Some([course[1] EXCEPT
                                     !.enrolledStudents = Append(@, user[1].id)]),
                  !.userOps = <<[path |-> "enrolledCourses", idx |-> 0, val |-> c],
                                [path |-> "progress", idx |-> 0, val |-> c]>>,
                  !.courseOps = <<user[1].id>>]]
  /\ UNCHANGED <<users, courses, now, issued, persist>>

\* enroll: await user.save()
EnrollSaveUser(r) ==
  /\ req[r].pc = "en_saveUser"
  /\ users' = SaveUser(req[r].user[1], req[r].userOps)
  /\ req' = [req EXCEPT ![r].pc = "en_saveCourse", ![r].storeOps = @ + 1]
  /\ UNCHANGED <<courses, now, issued, persist>>

\* enroll: await course.save(); return course
EnrollSaveCourse(r) ==
  /\ req[r].pc = "en_saveCourse"
  /\ courses' = SaveCourse(req[r].course[1], req[r].courseOps)
  /\ req' = [req EXCEPT ![r] =
       Return([req[r] EXCEPT !.storeOps = @ + 1], req[r].course)]
  /\ UNCHANGED <<users, now, issued, persist>>

\* completeLesson: load the user, find the progress entry, push if absent
CompleteLessonFind(r, courseId, lesson) ==
  /\ req[r].pc = "gated"
  /\ LET s == [Handled(req[r]) EXCEPT !.op = "completeLesson", !.courseId = courseId,
                             !.lesson = lesson]
     IN IF NotAuth(r)
        THEN req' = [req EXCEPT ![r] = Throw(s, "Unauthorized")]
        ELSE LET user == FindUserById(req[r].ctx.userId)
                 t == [s EXCEPT !.storeOps = @ + 1]
                 i == IF user = None THEN 0
                      ELSE FirstIndex(ProgressCourses(user[1]), courseId, 1)
             IN req' = [req EXCEPT ![r] =
                  IF user = None THEN Throw(t, "TypeError")
                  ELSE IF i = 0 THEN Throw(t, "TypeError")
                  ELSE IF Completed(user[1].progress[i], lesson)
                  THEN [t EXCEPT !.pc = "cl_save", !.user = user]
                  ELSE [t EXCEPT
                          !.pc = "cl_save",
                          !.user = Some([user[1] EXCEPT
                                    !.progress[i].completedLessons = Append(@, lesson)]),
                          !.userOps = <<[path |-> "completedLessons", idx |-> i,
                                         val |-> lesson]>>]]
  /\ UNCHANGED <<users, courses, now, issued, persist>>

\* completeLesson: await user.save(); return progress
CompleteLessonSave(r) ==
  /\ req[r].pc = "cl_save"
  /\ users' = SaveUser(req[r].user[1], req[r].userOps)
  /\ LET local == req[r].user[1]
         i == FirstIndex(ProgressCourses(local), req[r].courseId, 1)
     IN req' = [req EXCEPT ![r] =
          Return([req[r] EXCEPT !.storeOps = @ + 1], Some(local.progress[i]))]
  /\ UNCHANGED <<courses, now, issued, persist>>

\* the response is sent and the slot is free again
Respond(r) ==
  /\ req[r].pc = "done"
  /\ req' = [req EXCEPT ![r] = IdleSlot]
  /\ UNCHANGED <<users, courses, now, issued, persist>>

\* a day passes
Tick ==
  /\ now < MaxTime
  /\ now' = now + 1
  /\ UNCHANGED <<users, courses, issued, req, persist>>

Next ==
  \/ \E r \in Req, h \in Headers : Receive(r, h)
  \/ \E r \in Req, category \in Categories \cup {""} : Courses(r, category)
  \/ \E r \in Req : MyCourses(r)
  \/ \E r \in Req, c \in CourseArgs : MyProgress(r, c)
  \/ \E r \in Req, e \in Emails, p \in Passwords : RegisterFind(r, e, p)
  \/ \E r \in Req : RegisterSave(r)
  \/ \E r \in Req, e \in Emails, p \in Passwords : Login(r, e, p)
  \/ \E r \in Req, c \in CourseArgs : EnrollFindUser(r, c)
  \/ \E r \in Req : EnrollFindCourse(r)
  \/ \E r \in Req : EnrollSaveUser(r)
  \/ \E r \in Req : EnrollSaveCourse(r)
  \/ \E r \in Req, c \in CourseArgs, l \in Lessons : CompleteLessonFind(r, c, l)
  \/ \E r \in Req : CompleteLessonSave(r)
  \/ \E r \in Req : Respond(r)
  \/ Tick

\* The whole server.  In overwrite mode its state space is unbounded (see
\* SpecConc), so the claims are checked under the narrower specifications.
Spec == Init /\ [][Next]_vars

\* ------------------------------------------------- narrower specifications
\* no request is in flight
Quiet == \A q \in Req : req[q].pc \in {"idle", "done"}

\* Identity only: the gate, register, login and the clock, one request at a time.
NextAuth ==
  \/ \E r \in {1}, h \in Headers : Receive(r, h)
  \/ \E r \in {1}, e \in Emails, p \in Passwords : RegisterFind(r, e, p)
  \/ \E r \in {1} : RegisterSave(r)
  \/ \E r \in {1}, e \in Emails, p \in Passwords : Login(r, e, p)
  \/ \E r \in {1} : Respond(r)
  \/ Tick

SpecAuth == Init /\ [][NextAuth]_vars

\* Every operation, one request at a time: the single slot takes the next
\* request only when the previous one has been answered.  Users register
\* with one password.
NextSeq ==
  \/ \E r \in {1}, h \in Headers : Receive(r, h)
  \/ \E r \in {1}, category \in Categories \cup {""} : Courses(r, category)
  \/ \E r \in {1} : MyCourses(r)
  \/ \E r \in {1}, c \in CourseArgs : MyProgress(r, c)
  \/ \E r \in {1}, e \in Emails : RegisterFind(r, e, "pw1")
  \/ \E r \in {1} : RegisterSave(r)
  \/ \E r \in {1}, e \in Emails, p \in Passwords : Login(r, e, p)
  \/ \E r \in {1}, c \in CourseArgs : EnrollFindUser(r, c)
  \/ \E r \in {1} : EnrollFindCourse(r)
  \/ \E r \in {1} : EnrollSaveUser(r)
  \/ \E r \in {1} : EnrollSaveCourse(r)
  \/ \E r \in {1}, c \in {"c1", MissingCourse}, l \in Lessons : CompleteLessonFind(r, c, l)
  \/ \E r \in {1} : CompleteLessonSave(r)
  \/ \E r \in {1} : Respond(r)

SpecSeq == Init /\ [][NextSeq]_vars

\* Enrollment and progress with requests interleaved at their awaits.  The
\* run starts where two users have registered and logged in; every request
\* carries one of their tokens.  In overwrite mode a stale save can drop an
\* enrollment from the user while the course keeps the student, so the
\* student list can grow without end: MaxStudents caps it.
InitConc ==
  /\ users = <<NewUser(1, "ann@x.com", "pw1"), NewUser(2, "bob@x.com", "pw1")>>
  /\ courses = Catalog
  /\ now = 0
  /\ issued = {Sign(1, 0), Sign(2, 0)}
  /\ req = [r \in Req |-> IdleSlot]
  /\ persist \in {"overwrite", "delta"}

\* the course's student list still has room for one more enrollment
Room(c) ==
  Len(courses[c].enrolledStudents)
    + Cardinality({q \in Req : req[q].op = "enroll" /\ req[q].courseId = c
                                 /\ req[q].pc # "done"}) < MaxStudents

NextConc ==
  \/ \E r \in Req, t \in issued : Receive(r, Bearer(t))
  \/ \E r \in Req, c \in CourseIds : Room(c) /\ EnrollFindUser(r, c)
  \/ \E r \in Req : EnrollFindCourse(r)
  \/ \E r \in Req : EnrollSaveUser(r)
  \/ \E r \in Req : EnrollSaveCourse(r)
  \/ \E r \in Req : CompleteLessonFind(r, "c1", "lesson1")
  \/ \E r \in Req : CompleteLessonSave(r)
  \/ \E r \in Req : Respond(r)

SpecConc == InitConc /\ [][NextConc]_vars

\* Registration with requests interleaved at their awaits.
NextReg ==
  \/ \E r \in Req, h \in {NoHeader} \cup {Bearer(t) : t \in issued} : Receive(r, h)
  \/ \E r \in Req, e \in Emails, p \in Passwords : RegisterFind(r, e, p)
  \/ \E r \in Req : RegisterSave(r)
  \/ \E r \in Req, e \in Emails, p \in Passwords : Login(r, e, p)
  \/ \E r \in Req : Respond(r)

SpecReg == Init /\ [][NextReg]_vars

\* ------------------------------------------------------------------ claims
UserIds == 1..Len(users)

HasProgress(u, c) == Includes(ProgressCourses(users[u]), c)

LessonDone(doc, c, l) ==
  \E i \in 1..Len(doc.progress) :
    doc.progress[i].course = c /\ Includes(doc.progress[i].completedLessons, l)

Done(r, op) == req[r].pc = "done" /\ req[r].op = op

Authenticated(r) == req[r].ctx.isAuth = "true"

\* C1: enroll is idempotent when calls do not overlap: every call by an
\* authenticated user u for an existing course c returns course c and leaves
\* c once in u.enrolledCourses, u once in c.enrolledStudents and one Progress
\* record for c; a call made when the enrollment is already stored changes
\* neither stored document.
C1_EnrollIdempotent ==
  /\ [](\A r \in Req :
          (Done(r, "enroll") /\ Authenticated(r) /\ req[r].courseId \in CourseIds) =>
            LET u == req[r].ctx.userId
                c == req[r].courseId
            IN /\ req[r].outcome = "ok"
               /\ Count(users[u].enrolledCourses, c) = 1
               /\ Count(courses[c].enrolledStudents, u) = 1
               /\ Count(ProgressCourses(users[u]), c) = 1
               /\ req[r].ret = Some(courses[c]))
  /\ [][\A r \in Req :
          (/\ req[r].op = "enroll"
           /\ req[r].pc # "done"
           /\ Includes(users[req[r].ctx.userId].enrolledCourses, req[r].courseId)
           /\ Includes(courses[req[r].courseId].enrolledStudents, req[r].ctx.userId))
            => (users' = users /\ courses' = courses)]_vars

\* a repeated enroll has completed: it made its two reads and no write
C1_Witness ==
  \E r \in Req :
    /\ Done(r, "enroll") /\ req[r].outcome = "ok" /\ req[r].storeOps = 2
    /\ req[r].courseId \in CourseIds
    /\ Count(users[req[r].ctx.userId].enrolledCourses, req[r].courseId) = 1

IsPrefix(s, t) == Len(s) <= Len(t) /\ \A i \in 1..Len(s) : s[i] = t[i]

\* C2: when completeLesson calls do not overlap, a lesson name appears at
\* most once in a Progress record's completedLessons however often it is
\* completed, and the list keeps the order of first insertion (it only grows
\* at its end).
C2_LessonOnce ==
  /\ [](\A u \in UserIds : \A i \in 1..Len(users[u].progress) : \A l \in Lessons :
          Count(users[u].progress[i].completedLessons, l) <= 1)
  /\ [][\A u \in UserIds : \A i \in 1..Len(users[u].progress) :
          /\ i <= Len(users'[u].progress)
          /\ users'[u].progress[i].course = users[u].progress[i].course
          /\ IsPrefix(users[u].progress[i].completedLessons,
                      users'[u].progress[i].completedLessons)]_vars

\* a lesson completed earlier has been completed again, after a second one
C2_Witness ==
  \E r \in Req :
    /\ Done(r, "completeLesson") /\ req[r].outcome = "ok"
    /\ Len(req[r].ret[1].completedLessons) = 2
    /\ req[r].ret[1].completedLessons[1] = req[r].lesson
    /\ LessonDone(users[req[r].ctx.userId], req[r].courseId, req[r].lesson)

\* C3: completeLesson by an authenticated user with no Progress record for
\* the course ends in the explicit error NoSuchProgress.
C3_NoSuchProgress ==
  \A r \in Req :
    (Done(r, "completeLesson") /\ Authenticated(r)
       /\ ~HasProgress(req[r].ctx.userId, req[r].courseId))
      => req[r].outcome = "NoSuchProgress"

DuplicateEmail == {"Email already registered", "E11000 duplicate key"}

\* C4: no two stored users ever share an email, under any interleaving of
\* register requests; a register step never modifies a user that is already
\* stored, and one that finds its email stored fails with the duplicate-email
\* error and stores nothing.
C4_UniqueEmail ==
  /\ [](\A i, j \in UserIds : users[i].email = users[j].email => i = j)
  /\ [][\A r \in Req :
          (req'[r] # req[r] /\ req'[r].op = "register") =>
            /\ IsPrefix(users, users')
            /\ (\E i \in UserIds : users[i].email = req'[r].email) =>
                 /\ users' = users
                 /\ req'[r].pc = "done"
                 /\ req'[r].outcome \in DuplicateEmail]_vars

\* two registrations of one email raced: the second insert was refused
C4_Witness ==
  \E r \in Req : Done(r, "register") /\ req[r].outcome = "E11000 duplicate key"

\* the token a request presents, if any
Presented(s) == IF s.header.rest = <<>> THEN None ELSE Some(s.header.rest[1])

\* C5: login with a stored user's email and password returns that user's id
\* and a token which, presented to the gate before it expires, yields an
\* authenticated context with the same user id; login with an unknown email
\* or another password fails with "Invalid credentials" and issues no token.
C5_LoginRoundTrip ==
  /\ [](\A r \in Req :
          Done(r, "login") =>
            LET hit == FindUserByEmail(req[r].email)
            IN IF hit # None /\ hit[1].password = req[r].password
               THEN /\ req[r].outcome = "ok"
                    /\ req[r].ret # None
                    /\ req[r].ret[1].userId = hit[1].id
                    /\ req[r].ret[1].token.userId = hit[1].id
                    /\ req[r].ret[1].token \in issued
               ELSE /\ req[r].outcome = "Invalid credentials"
                    /\ req[r].ret = None)
  /\ [][/\ \A r \in Req :
             (req'[r] # req[r] /\ req'[r].op = "login" /\ req'[r].outcome # "ok")
               => issued' = issued
        /\ \A r \in Req :
             (/\ req[r].pc = "idle" /\ req'[r].pc # "idle"
              /\ Presented(req'[r]) # None
              /\ Presented(req'[r])[1] \in issued
              /\ now < Presented(req'[r])[1].exp)
               => /\ req'[r].pc = "gated"
                  /\ req'[r].ctx.isAuth = "true"
                  /\ req'[r].ctx.userId = Presented(req'[r])[1].userId]_vars

\* a token returned by login has passed the gate
C5_Witness ==
  \E r \in Req :
    /\ req[r].pc = "gated"
    /\ Presented(req[r]) # None
    /\ Presented(req[r])[1] \in issued
    /\ req[r].ctx.isAuth = "true"
    /\ users[req[r].ctx.userId].id = Presented(req[r])[1].userId

\* C6: for every authorization header the gate hands the request on exactly
\* once and raises nothing; the context is authenticated, with the token's
\* user id, exactly when the header carries a token issued by login that has
\* not expired, and carries no user id otherwise.
C6_GateNeverBlocks ==
  [][\A r \in Req :
       (req[r].pc = "idle" /\ req'[r].pc # "idle") =>
         LET tok == Presented(req'[r])
             ok == tok # None /\ tok[1] \in issued /\ now < tok[1].exp
         IN /\ req'[r].pc = "gated"
            /\ req'[r].ctx.nextCalls = 1
            /\ ~req'[r].ctx.thrown
            /\ (req'[r].ctx.isAuth = "true") <=> ok
            /\ ok => req'[r].ctx.userId = tok[1].userId
            /\ ~ok => req'[r].ctx.userId = 0]_vars

\* an expired token issued by login was presented and the request went on,
\* unauthenticated
C6_Witness ==
  \E r \in Req :
    /\ req[r].pc = "gated"
    /\ Presented(req[r]) # None
    /\ Presented(req[r])[1] \in issued
    /\ now >= Presented(req[r])[1].exp
    /\ req[r].ctx.isAuth = "false"
    /\ req[r].ctx.nextCalls = 1

GatedOps == {"enroll", "completeLesson", "myProgress", "myCourses"}
OpenOps == {"courses", "register", "login"}

\* C7: a gated operation (enroll, completeLesson, myProgress, myCourses)
\* without an authenticated context fails with Unauthorized before any store
\* access and changes no user or course; courses, register and login never
\* fail with Unauthorized and reach the store whatever the context.
C7_GatedOps ==
  /\ [](\A r \in Req :
          /\ (req[r].op \in GatedOps /\ ~Authenticated(r)) =>
               (req[r].pc = "done" /\ req[r].outcome = "Unauthorized"
                  /\ req[r].storeOps = 0)
          /\ req[r].op \in OpenOps =>
               (req[r].outcome # "Unauthorized" /\ req[r].storeOps >= 1))
  /\ [][\A r \in Req :
          (req'[r] # req[r] /\ req'[r].op \in GatedOps /\ req'[r].ctx.isAuth # "true")
            => (users' = users /\ courses' = courses)]_vars

\* an enroll without credentials was refused while users are stored
C7_Witness ==
  \E r \in Req :
    /\ Done(r, "enroll") /\ req[r].outcome = "Unauthorized"
    /\ req[r].ctx.isAuth = "undefined" /\ req[r].courseId \in CourseIds
    /\ Len(users) > 0

\* C8: in every reachable state, with enroll requests of one user interleaved
\* at their awaits, each stored user has at most one Progress record per
\* course and each course id at most once in enrolledCourses.
C8_OneProgressPerCourse ==
  \A u \in UserIds, c \in CourseIds :
    /\ Count(users[u].enrolledCourses, c) <= 1
    /\ Count(ProgressCourses(users[u]), c) <= 1

====
